---- MODULE Spec2Model ----
(***************************************************************************)
(* ws-frame: decoding of one WebSocket (RFC 6455) frame header from a      *)
(* byte buffer that may be incomplete (src/src/lib.rs, src/src/iter.rs).   *)
(*                                                                         *)
(* Representation.                                                         *)
(*   Option<T>   None is <<>>, Some(v) is <<v>>.                           *)
(*   u8          an integer in 0..255.                                     *)
(*   u64         four 16-bit limbs, most significant first (TLC's integers *)
(*               are 32 bits wide, a u64 does not fit in one of them).     *)
(*   Status      <<"Partial">>, <<"Complete", n>>; a panic that unwinds    *)
(*               out of decode is <<"Panic">>.                             *)
(***************************************************************************)
EXTENDS Integers, Sequences, FiniteSets, TLC

VARIABLES
    wire,    \* the bytes the transport will eventually have received
    avail,   \* how many of them are in the buffer handed to decode
    frame,   \* the Frame decode writes into: head, mask, payload_len
    pos,     \* Bytes.pos of the cursor decode builds over the buffer
    first,   \* decode's local `first`  (None until read)
    second,  \* decode's local `second` (None until read)
    pc,      \* where decode stands
    status,  \* what decode returned (None while it runs)
    reads,   \* the buffer indices (0-based) decode has read bytes at
    calls,   \* how many times decode has been called on this Frame
    ret      \* what the last call of the cursor returned (None: no call),
             \* kept where the cursor is driven on its own

vars ==
    <<wire, avail, frame, pos, first, second, pc, status, reads, calls, ret>>

None == <<>>
Some(v) == <<v>>

----------------------------------------------------------------------------
(* Bounds of the model.                                                    *)

\* Longest payload carried behind an extended (8-byte) length field.
MaxPayload == 2
\* Most bytes of a following frame that trail the frame in the buffer.
MaxExtra == 1

----------------------------------------------------------------------------
(* Bit operations on u8.                                                   *)

RECURSIVE BitAnd(_, _)
BitAnd(a, b) ==
    IF a = 0 \/ b = 0 THEN 0
    ELSE (a % 2) * (b % 2) + 2 * BitAnd(a \div 2, b \div 2)

Shr(a, k) == a \div (2 ^ k)

\* fn first_bit(byte: u8) -> bool { byte >> 7 == 1u8 }
first_bit(byte) == Shr(byte, 7) = 1

----------------------------------------------------------------------------
(* Status and the types of the Frame.                                      *)

Partial == <<"Partial">>
Complete(n) == <<"Complete", n>>
Panicked == <<"Panic">>

is_complete(s) == Len(s) = 2 /\ s[1] = "Complete"
is_partial(s) == s = Partial

\* Mutant of Opcode::from: the arm of Pong (10) is missing.
Opcode_from_no_pong(opcode) ==
    CASE opcode = 0 -> "Continue"
      [] opcode = 1 -> "Text"
      [] opcode = 2 -> "Binary"
      [] opcode = 8 -> "Close"
      [] opcode = 9 -> "Ping"
      [] OTHER -> "Reserved"

\* impl From<u8> for Opcode
Opcode_from(opcode) ==
    CASE opcode = 0 -> "Continue"
      [] opcode = 1 -> "Text"
      [] opcode = 2 -> "Binary"
      [] opcode = 8 -> "Close"
      [] opcode = 9 -> "Ping"
      [] opcode = 10 -> "Pong"
      [] OTHER -> "Reserved"

\* Mutant of the rsv loop: rsv[i] for rsv[2 - i], RSV3 first.
RsvOf_reversed(byte) ==
    LET rsv_bits == BitAnd(Shr(byte, 4), 7)
    IN  [k \in 1..3 |-> BitAnd(Shr(rsv_bits, k - 1), 1) = 1]

\* let rsv_bits = first >> 4 & 0x7u8;
\* for i in 0..3 { rsv[2 - i] = rsv_bits >> i & 0x1u8 == 1u8; }
\* (rsv is indexed from 0 in the code and from 1 here: rsv[2 - i] is
\* element 3 - i.)
RsvOf(byte) ==
    LET rsv_bits == BitAnd(Shr(byte, 4), 7)
    IN  [k \in 1..3 |-> BitAnd(Shr(rsv_bits, 3 - k), 1) = 1]

\* Head { op: Opcode::from(first & 0xF), finished: first_bit(first), rsv }
HeadOf(byte) ==
    [op |-> Opcode_from(BitAnd(byte, 15)),
     finished |-> first_bit(byte),
     rsv |-> RsvOf(byte)]

\* Frame::empty()
Frame_empty == [head |-> None, mask |-> None, payload_len |-> None]

----------------------------------------------------------------------------
(* u64 values.                                                             *)

\* `l as u64` for a u8 l.
U64FromU8(l) == <<0, 0, 0, l>>

\* Mutant of read_u64: the bytes taken least significant first
\* (LittleEndian::read_u64).
read_u64_little_endian(s) ==
    [k \in 1..4 |-> s[10 - 2 * k] * 256 + s[9 - 2 * k]]

\* BigEndian::read_u64(buf) for a slice of at least 8 bytes: the first 8
\* bytes, most significant first.
read_u64(s) ==
    [k \in 1..4 |-> s[2 * k - 1] * 256 + s[2 * k]]

\* BigEndian::read_u64 panics on a slice shorter than 8 bytes.
read_u64_panics(s) == Len(s) < 8

----------------------------------------------------------------------------
(* The cursor, src/src/iter.rs.                                            *)

\* *self.slice.get_unchecked(i): the byte at 0-based index i. Outside the
\* slice the read is undefined; next() guards it with slice.len() > pos.
get_unchecked(slice, i) == IF i < Len(slice) THEN slice[i + 1] ELSE 0

\* Mutants of Bytes::next: the position is not advanced; the bound check
\* is off by one (>= for >); the bound check is missing.
Bytes_next_stuck(slice, p) ==
    IF Len(slice) > p
    THEN [item |-> Some(get_unchecked(slice, p)), pos |-> p, read |-> {p}]
    ELSE [item |-> None, pos |-> p, read |-> {}]

Bytes_next_off_by_one(slice, p) ==
    IF Len(slice) >= p
    THEN [item |-> Some(get_unchecked(slice, p)), pos |-> p + 1, read |-> {p}]
    ELSE [item |-> None, pos |-> p, read |-> {}]

Bytes_next_unguarded(slice, p) ==
    [item |-> Some(get_unchecked(slice, p)), pos |-> p + 1, read |-> {p}]

\* Bytes::next: the byte read (or None), the new position, the index read.
Bytes_next(slice, p) ==
    IF Len(slice) > p
    THEN [item |-> Some(get_unchecked(slice, p)), pos |-> p + 1, read |-> {p}]
    ELSE [item |-> None, pos |-> p, read |-> {}]

\* slice.get(start..end): None unless start <= end <= len.
slice_get(slice, start, end) ==
    IF start <= end /\ end <= Len(slice)
    THEN Some(SubSeq(slice, start + 1, end))
    ELSE None

\* Mutant of Bytes::slice_to: the position is left where it was.
Bytes_slice_to_stuck(slice, p, end) ==
    [item |-> slice_get(slice, p, p + end), pos |-> p]

\* Bytes::slice_to: the position moves by `end` whether or not the slice
\* is there.
Bytes_slice_to(slice, p, end) ==
    [item |-> slice_get(slice, p, p + end), pos |-> p + end]

----------------------------------------------------------------------------
(* The buffers decode is called on: prefixes of the byte sequences below.  *)

\* The payload bytes that follow a header (the unit test's payload is
\* 1, 2, 3) and the bytes of a following frame behind them.
Payload(n) == [i \in 1..n |-> i % 256]
Trailer(n) == [i \in 1..n |-> 129]

\* The masking key of a masked frame.
MaskKey == <<55, 250, 33, 61>>

\* byte 0: FIN RSV1 RSV2 RSV3 OPCODE(4); byte 1: MASK PAYLOAD_LEN(7); the
\* extended length; the masking key.
Header(f, masked, code, ext) ==
    <<f, (IF masked THEN 128 ELSE 0) + code>> \o ext
        \o (IF masked THEN MaskKey ELSE <<>>)

\* The first byte of the unit tests, 0b10100010.
TestFirst == 128 + 32 + 2

\* Every first byte, before a short unmasked frame (tests::it_works).
FramesHead ==
    { Header(f, FALSE, 3, <<>>) \o Payload(3) : f \in 0..255 }

\* Every base length code 0..125, the payload whole.
FramesLen ==
    { Header(TestFirst, m, c, <<>>) \o Payload(c) :
        m \in BOOLEAN, c \in 0..125 }

\* Base length code 127: an 8-byte length field. Lengths up to MaxPayload
\* with the payload whole, larger ones with the payload cut short.
SmallLens8 == { <<0, 0, 0, 0, 0, 0, 0, v>> : v \in 0..MaxPayload }
BigLens8 ==
    { <<0, 0, 0, 0, 0, 0, 0, 126>>,
      <<0, 0, 0, 0, 0, 0, 255, 255>>,
      <<0, 0, 0, 0, 0, 1, 0, 0>>,
      <<1, 2, 3, 4, 5, 6, 7, 8>>,
      <<128, 0, 0, 0, 0, 0, 0, 1>>,
      <<255, 255, 255, 255, 255, 255, 255, 255>> }
FramesExt8 ==
    { Header(TestFirst, m, 127, e) \o Payload(e[8]) :
        m \in BOOLEAN, e \in SmallLens8 }
    \cup
    { Header(TestFirst, m, 127, e) \o Payload(MaxPayload) :
        m \in BOOLEAN, e \in BigLens8 }

\* Base length code 126: the 4 bytes the code takes for the length field,
\* and the 2-byte field of RFC 6455 before a whole payload of 126 bytes.
Lens4 ==
    { <<0, 0, 0, 126>>, <<0, 0, 255, 255>>, <<0, 1, 0, 0>>, <<1, 2, 3, 4>> }
FramesExt4 ==
    { Header(TestFirst, m, 126, e) \o Payload(MaxPayload) :
        m \in BOOLEAN, e \in Lens4 }
    \cup
    { Header(TestFirst, m, 126, <<0, 126>>) \o Payload(126) : m \in BOOLEAN }

Frames == FramesHead \cup FramesLen \cup FramesExt8 \cup FramesExt4

Wires == { fr \o Trailer(e) : fr \in Frames, e \in 0..MaxExtra }

\* buf: &[u8], the argument of decode.
buf == SubSeq(wire, 1, avail)

----------------------------------------------------------------------------
(* Frame::decode, one action per statement that reads the cursor.          *)

\* A caller holds a fresh Frame::empty() and a buffer.
Init ==
    /\ wire \in Wires
    /\ avail \in 0..Len(wire)
    /\ frame = Frame_empty
    /\ pos = 0
    /\ first = None
    /\ second = None
    /\ pc = "call"
    /\ status = None
    /\ reads = {}
    /\ calls = 1
    /\ ret = None

\* Mutants of the entry of decode: the Frame is cleared first
\* (*self = Frame::empty()); the cursor is not rebuilt, the position of the
\* call before is kept.
DecodeNew_clears_frame ==
    /\ pc = "call"
    /\ pos' = 0
    /\ reads' = {}
    /\ pc' = "first"
    /\ frame' = Frame_empty
    /\ UNCHANGED <<wire, avail, calls, ret, first, second, status>>

DecodeNew_keeps_cursor ==
    /\ pc = "call"
    /\ pos' = pos
    /\ reads' = {}
    /\ pc' = "first"
    /\ UNCHANGED <<wire, avail, calls, ret, frame, first, second, status>>

\* let mut bytes = Bytes::new(buf);
DecodeNew ==
    /\ pc = "call"
    /\ pos' = 0
    /\ reads' = {}
    /\ pc' = "first"
    /\ UNCHANGED <<wire, avail, calls, ret, frame, first, second, status>>

\* unwrap!: None => return Status::Partial
Abort ==
    /\ status' = Partial
    /\ pc' = "done"

\* Mutant of the first statement: the assignment of self.head is missing.
DecodeFirst_head_unwritten ==
    /\ pc = "first"
    /\ LET r == Bytes_next(buf, pos)
       IN  /\ pos' = r.pos
           /\ reads' = reads \cup r.read
           /\ IF r.item = None
              THEN Abort /\ UNCHANGED first
              ELSE /\ first' = r.item
                   /\ pc' = "second"
                   /\ UNCHANGED status
    /\ UNCHANGED <<wire, avail, calls, ret, frame, second>>

\* let first = unwrap!(bytes.next()); ...; self.head = Some(Head { .. });
DecodeFirst ==
    /\ pc = "first"
    /\ LET r == Bytes_next(buf, pos)
       IN  /\ pos' = r.pos
           /\ reads' = reads \cup r.read
           /\ IF r.item = None
              THEN Abort /\ UNCHANGED <<frame, first>>
              ELSE /\ first' = r.item
                   /\ frame' = [frame EXCEPT !.head = Some(HeadOf(r.item[1]))]
                   /\ pc' = "second"
                   /\ UNCHANGED status
    /\ UNCHANGED <<wire, avail, calls, ret, second>>

\* let second = unwrap!(bytes.next());
DecodeSecond ==
    /\ pc = "second"
    /\ LET r == Bytes_next(buf, pos)
       IN  /\ pos' = r.pos
           /\ reads' = reads \cup r.read
           /\ IF r.item = None
              THEN Abort /\ UNCHANGED second
              ELSE /\ second' = r.item
                   /\ pc' = "length"
                   /\ UNCHANGED status
    /\ UNCHANGED <<wire, avail, calls, ret, frame, first>>

\* Mutant of the base length code: the mask bit is not cleared.
LengthCode_with_mask_bit(byte) == byte

\* second & 0x7F: the base length code.
LengthCode(byte) == BitAnd(byte, 127)

\* The bytes of the length field: 126 => bytes.slice_to(4),
\* 127 => bytes.slice_to(8), l => none.
LengthWidth(code) ==
    IF code = 126 THEN 4 ELSE IF code = 127 THEN 8 ELSE 0

\* self.payload_len = Some(match second & 0x7F {
\*     126 => unwrap!(bytes.slice_to(4).map(BigEndian::read_u64)),
\*     127 => unwrap!(bytes.slice_to(8).map(BigEndian::read_u64)),
\*     l => l as u64,
\* });
DecodeLength ==
    /\ pc = "length"
    /\ LET code == LengthCode(second[1])
           r == Bytes_slice_to(buf, pos, LengthWidth(code))
       IN  IF code = 126 \/ code = 127
           THEN /\ pos' = r.pos
                /\ IF r.item = None
                   THEN Abort /\ UNCHANGED <<frame, reads>>
                   ELSE IF read_u64_panics(r.item[1])
                   THEN /\ status' = Panicked
                        /\ pc' = "done"
                        /\ UNCHANGED <<frame, reads>>
                   ELSE /\ frame' = [frame EXCEPT
                               !.payload_len = Some(read_u64(r.item[1]))]
                        /\ reads' = reads \cup (pos..(pos + 7))
                        /\ pc' = "mask"
                        /\ UNCHANGED status
           ELSE /\ frame' = [frame EXCEPT
                       !.payload_len = Some(U64FromU8(code))]
                /\ pc' = "mask"
                /\ UNCHANGED <<pos, reads, status>>
    /\ UNCHANGED <<wire, avail, calls, ret, first, second>>

\* if first_bit(second) {
\*     let mut mask = [0; 4];
\*     mask.copy_from_slice(unwrap!(bytes.slice_to(4)));
\*     self.mask = Some(mask);
\* }
DecodeMask ==
    /\ pc = "mask"
    /\ IF first_bit(second[1])
       THEN LET r == Bytes_slice_to(buf, pos, 4)
            IN  /\ pos' = r.pos
                /\ IF r.item = None
                   THEN Abort /\ UNCHANGED <<frame, reads>>
                   ELSE /\ frame' = [frame EXCEPT !.mask = r.item]
                        /\ reads' = reads \cup (pos..(pos + 3))
                        /\ pc' = "return"
                        /\ UNCHANGED status
       ELSE /\ pc' = "return"
            /\ UNCHANGED <<frame, pos, reads, status>>
    /\ UNCHANGED <<wire, avail, calls, ret, first, second>>

\* Mutant of the return: the length of the buffer for the position of the
\* cursor (Status::Complete(buf.len())).
DecodeReturn_buffer_len ==
    /\ pc = "return"
    /\ status' = Complete(avail)
    /\ pc' = "done"
    /\ UNCHANGED <<wire, avail, calls, ret, frame, pos, first, second, reads>>

\* Status::Complete(bytes.pos())
DecodeReturn ==
    /\ pc = "return"
    /\ status' = Complete(pos)
    /\ pc' = "done"
    /\ UNCHANGED <<wire, avail, calls, ret, frame, pos, first, second, reads>>

Next ==
    \/ DecodeNew
    \/ DecodeFirst
    \/ DecodeSecond
    \/ DecodeLength
    \/ DecodeMask
    \/ DecodeReturn

Spec == Init /\ [][Next]_vars

----------------------------------------------------------------------------
(* What the claims speak of, read off the bytes on the wire with plain     *)
(* arithmetic (not with the decoder's operators).                          *)

\* Bit k of a byte.
Bit(byte, k) == (byte \div (2 ^ k)) % 2 = 1

\* The first byte, the mask bit and the base length code of the frame.
WireFirst == wire[1]
WireMasked == wire[2] >= 128
WireCode == wire[2] % 128

\* The header of the frame as decode lays it out: 2 bytes, the length
\* field (4 bytes after code 126, 8 after code 127), 4 bytes of masking key.
WireExtBytes == IF WireCode = 126 THEN 4 ELSE IF WireCode = 127 THEN 8 ELSE 0
WireMaskBytes == IF WireMasked THEN 4 ELSE 0
WireHeaderLen == 2 + WireExtBytes + WireMaskBytes

\* A length no buffer of the model reaches.
Huge == 2 ^ 30

\* The payload length the header announces, Huge when it is 2^24 or more.
WirePayloadLen ==
    IF WireExtBytes = 0 THEN WireCode
    ELSE LET last == 2 + WireExtBytes
         IN  IF \A i \in 3..(last - 3) : wire[i] = 0
             THEN wire[last - 2] * 65536 + wire[last - 1] * 256 + wire[last]
             ELSE Huge

\* The length of the whole frame: header and payload.
WireFrameLen == WireHeaderLen + WirePayloadLen

\* payload_len.unwrap() as usize (tests::it_works), Huge when it is 2^30
\* or more.
U64ToNat(v) ==
    IF v[1] = 0 /\ v[2] = 0 /\ v[3] < 2 ^ 14 THEN v[3] * 65536 + v[4]
    ELSE Huge

\* decode has returned (it has not unwound with a panic).
Returned == pc = "done" /\ status # Panicked

\* decode is past the statement that writes head / payload_len.
HeadWritten == pc \in {"second", "length", "mask", "return"}
                  \/ (pc = "done" /\ avail >= 1)
----------------------------------------------------------------------------
(* C1 *)

\* C1, as claimed: decode of a buffer that holds exactly an unmasked frame
\* with base length code L <= 125 and its L payload bytes returns
\* Complete(2 + L).
C1_CompleteCountsPayload ==
    (pc = "done" /\ ~WireMasked /\ WireCode <= 125 /\ avail = 2 + WireCode)
        => status = Complete(2 + WireCode)

\* C1, amended: decode of a buffer that holds exactly an unmasked frame
\* with base length code L <= 125 and its L payload bytes returns
\* Complete(2), whatever the first byte: the count covers the two header
\* bytes and none of the payload.
C1_CompleteCountsHeader ==
    (pc = "done" /\ ~WireMasked /\ WireCode <= 125 /\ avail = 2 + WireCode)
        => status = Complete(2)

\* C1, witness: the unit test's buffer, 0b10100010 3 1 2 3, decoded to
\* Complete(2).
C1_Witness ==
    /\ pc = "done"
    /\ buf = <<TestFirst, 3, 1, 2, 3>>
    /\ status = Complete(2)

----------------------------------------------------------------------------
(* C2 *)

\* C2: when decode returns Complete(n) for a buffer that holds exactly one
\* whole frame, n is the buffer length minus the decoded payload_len, and
\* n is the length of the header: 2 bytes, the length field and the
\* masking key; no payload byte is counted.
C2_CompleteIsHeaderLen ==
    (pc = "done" /\ is_complete(status) /\ avail = WireFrameLen)
        => /\ frame.payload_len # None
           /\ status[2] = avail - U64ToNat(frame.payload_len[1])
           /\ status[2] = WireHeaderLen

\* C2, witness: a masked frame with an 8-byte length field and 2 payload
\* bytes, 16 bytes in all, decoded to Complete(14).
C2_Witness ==
    /\ pc = "done"
    /\ WireMasked /\ WireCode = 127 /\ WirePayloadLen = 2
    /\ avail = WireFrameLen
    /\ status = Complete(14)

----------------------------------------------------------------------------
(* C3 *)

----------------------------------------------------------------------------
(* C4 *)

\* C4, as claimed: every call of decode ends by returning Partial or
\* Complete; it never panics.
C4_DecodeIsTotal ==
    pc = "done" => (status = Partial \/ is_complete(status))

----------------------------------------------------------------------------
(* C5 *)

\* C5: every byte decode reads is at an index below buf.len(), and when it
\* returns Complete(n), n <= buf.len().
C5_ReadsInBounds ==
    /\ \A i \in reads : 0 <= i /\ i < avail
    /\ is_complete(status) => status[2] <= avail

\* C5, witness: a buffer that ends with the header of a masked frame with
\* an 8-byte length field; decode has read all 14 bytes and returned
\* Complete(14).
C5_Witness ==
    /\ pc = "done"
    /\ avail = 14
    /\ reads = 0..13
    /\ status = Complete(14)

----------------------------------------------------------------------------
(* C6 *)

\* C6, as claimed: after base length code 126, with at least 4 more bytes
\* in the buffer, decode sets payload_len to the next 4 bytes read as a
\* big-endian unsigned integer.
C6_Length126 ==
    (pc = "done" /\ WireCode = 126 /\ avail >= 6)
        => frame.payload_len
             = Some(<<0, 0, wire[3] * 256 + wire[4], wire[5] * 256 + wire[6]>>)

----------------------------------------------------------------------------
(* C7 *)

\* C7: after base length code 127, with at least 8 more bytes in the
\* buffer, decode does not panic and sets payload_len to the next 8 bytes
\* read as a big-endian u64 (the most significant byte of the value is
\* byte 3 of the buffer, the least significant byte 10), whatever its top
\* bit; the length field takes exactly those 8 bytes: the cursor stands
\* at 10 behind it.
C7_Length127 ==
    (WireCode = 127 /\ avail >= 10 /\ pc \in {"mask", "return", "done"})
        => /\ status # Panicked
           /\ frame.payload_len # None
           /\ \A k \in 1..4 :
                /\ frame.payload_len[1][k] \div 256 = wire[2 * k + 1]
                /\ frame.payload_len[1][k] % 256 = wire[2 * k + 2]
           /\ pc = "mask" => (pos = 10 /\ reads = 0..9)

\* C7, witness: the length 0x8000000000000001, top bit set, decoded from
\* a whole header.
C7_Witness ==
    /\ pc = "done"
    /\ WireCode = 127
    /\ wire[3] = 128
    /\ is_complete(status)
    /\ frame.payload_len = Some(<<32768, 0, 0, 1>>)

----------------------------------------------------------------------------
(* C8 *)

\* C8: for every base length code c <= 125 decode sets payload_len to
\* Some(c) from the first two bytes alone: behind the length the cursor
\* stands at 2 and only indices 0 and 1 have been read, and payload_len is
\* set also when the buffer ends after byte 2.
C8_LengthFromCode ==
    (WireCode <= 125 /\ avail >= 2 /\ pc \in {"mask", "return", "done"})
        => /\ frame.payload_len = Some(<<0, 0, 0, WireCode>>)
           /\ pc = "mask" => (pos = 2 /\ reads = {0, 1})

\* C8, witness: the buffer 0b10100010 0b01100100 of tests::payload_length,
\* two bytes and no payload, decoded to payload_len = Some(100).
C8_Witness ==
    /\ pc = "done"
    /\ buf = <<TestFirst, 100>>
    /\ frame.payload_len = Some(<<0, 0, 0, 100>>)

----------------------------------------------------------------------------
(* C9 *)

\* C9: for every first byte, head.finished is its bit 7 and head.rsv is
\* its bits 6, 5, 4 in that order.
C9_FinAndRsv ==
    HeadWritten
        => /\ frame.head # None
           /\ frame.head[1].finished = Bit(WireFirst, 7)
           /\ frame.head[1].rsv
                = <<Bit(WireFirst, 6), Bit(WireFirst, 5), Bit(WireFirst, 4)>>

\* C9, witness: 0b10100010 decoded to finished = true and
\* rsv = [false, true, false].
C9_Witness ==
    /\ pc = "done"
    /\ WireFirst = TestFirst
    /\ frame.head # None
    /\ frame.head[1].finished = TRUE
    /\ frame.head[1].rsv = <<FALSE, TRUE, FALSE>>

----------------------------------------------------------------------------
(* C10 *)

\* The opcode table of RFC 6455 over the 16 values of the low nibble.
OpcodeTable ==
    <<"Text", "Binary", "Reserved", "Reserved", "Reserved", "Reserved",
      "Reserved", "Close", "Ping", "Pong", "Reserved", "Reserved",
      "Reserved", "Reserved", "Reserved">>

OpcodeOfNibble(n) == IF n = 0 THEN "Continue" ELSE OpcodeTable[n]

\* C10: head.op is the table's entry for the low 4 bits of the first byte,
\* whatever the upper 4 bits; every opcode gets a head, and none makes
\* decode fail: the short unmasked frame that holds bytes 1 and 2 decodes
\* to Complete(2) behind every first byte.
C10_OpcodeMapping ==
    /\ HeadWritten
         => /\ frame.head # None
            /\ frame.head[1].op = OpcodeOfNibble(WireFirst % 16)
    /\ (pc = "done" /\ avail >= 2 /\ ~WireMasked /\ WireCode <= 125)
         => status = Complete(2)

\* C10, witness: the first byte 0b01111010, opcode 10 under upper bits
\* 0111, decoded to Pong in a completed call.
C10_Witness ==
    /\ pc = "done"
    /\ WireFirst = 122
    /\ is_complete(status)
    /\ frame.head # None
    /\ frame.head[1].op = "Pong"

----------------------------------------------------------------------------
(* C11 *)

\* The 4 bytes behind the length field of the frame on the wire.
WireMaskKey == SubSeq(wire, WireHeaderLen - 3, WireHeaderLen)

\* C11, as claimed: when the mask bit is set and the buffer holds at least
\* 4 bytes behind the length field (base code and any extended-length
\* bytes), decode sets mask to exactly those 4 bytes, in buffer order.
C11_MaskExtracted ==
    (pc = "done" /\ WireMasked /\ avail >= WireHeaderLen)
        => frame.mask = Some(WireMaskKey)

\* C11, the part of it the code keeps: behind every length field but that
\* of base code 126 the mask is those 4 bytes, they are read after the
\* length field (the cursor stands at the end of the header behind them),
\* and no step of decode writes the buffer.
C11_MaskExtractedExcept126 ==
    /\ (pc \in {"return", "done"} /\ WireMasked /\ WireCode # 126
          /\ avail >= WireHeaderLen)
         => /\ frame.mask = Some(WireMaskKey)
            /\ pos = WireHeaderLen
            /\ reads = 0..(WireHeaderLen - 1)
    /\ (pc = "mask" /\ WireMasked)
         => reads = 0..(WireHeaderLen - 5)

----------------------------------------------------------------------------
(* decode called again on the same Frame: `decode(&mut self, buf)` takes   *)
(* whatever Frame the caller holds, and the caller of the doc comment      *)
(* ("read more and decode again") holds the one of the call before.        *)

\* Most calls of decode on one Frame.
MaxCalls == 2

\* The frames of the repeated calls: two first bytes (0b10100010 and
\* 0b10000001), five length fields, no masking key or one of two, and one
\* byte behind the header.
ReuseFirsts == {TestFirst, 129}
ReuseLengths ==
    { <<0, <<>>>>,
      <<2, <<>>>>,
      <<126, <<0, 0, 0, 126>>>>,
      <<127, <<0, 0, 0, 0, 0, 0, 0, 1>>>>,
      <<127, <<1, 2, 3, 4, 5, 6, 7, 8>>>> }
ReuseKeys == {MaskKey, <<1, 2, 3, 4>>}
ReuseWires ==
    { <<f, l[1]>> \o l[2] \o Payload(1) :
        f \in ReuseFirsts, l \in ReuseLengths }
    \cup
    { <<f, 128 + l[1]>> \o l[2] \o k \o Payload(1) :
        f \in ReuseFirsts, l \in ReuseLengths, k \in ReuseKeys }

\* A caller holds a fresh Frame::empty() and a buffer.
InitReuse ==
    /\ wire \in ReuseWires
    /\ avail \in 0..Len(wire)
    /\ frame = Frame_empty
    /\ pos = 0
    /\ first = None
    /\ second = None
    /\ pc = "call"
    /\ status = None
    /\ reads = {}
    /\ calls = 1
    /\ ret = None

\* decode has returned and the caller calls it again on the same Frame
\* with another buffer; the Frame is what the call before left, and the
\* cursor of the call before is dead until DecodeNew builds the next one.
\* (A panic unwinds the caller: no call follows it.)
Redecode ==
    /\ pc = "done"
    /\ status # Panicked
    /\ calls < MaxCalls
    /\ wire' \in ReuseWires
    /\ avail' \in 0..Len(wire')
    /\ calls' = calls + 1
    /\ pc' = "call"
    /\ first' = None
    /\ second' = None
    /\ status' = None
    /\ UNCHANGED <<frame, ret, pos, reads>>

\* decode has returned and the caller, having read more, calls it again
\* on the same Frame with a longer prefix of the same bytes.
Retry ==
    /\ pc = "done"
    /\ status # Panicked
    /\ calls < MaxCalls
    /\ avail' \in (avail + 1)..Len(wire)
    /\ calls' = calls + 1
    /\ pc' = "call"
    /\ first' = None
    /\ second' = None
    /\ status' = None
    /\ UNCHANGED <<wire, frame, ret, pos, reads>>

NextReuse == Next \/ Redecode
NextRetry == Next \/ Retry

\* Any sequence of calls on one Frame.
SpecReuse == InitReuse /\ [][NextReuse]_vars

\* The retry protocol: growing prefixes of the same bytes.
SpecRetry == InitReuse /\ [][NextRetry]_vars

----------------------------------------------------------------------------
(* C12 *)

C12_MaskAbsentOnFreshFrame ==
    (calls = 1 /\ avail >= 2 /\ ~WireMasked) => frame.mask = None

----------------------------------------------------------------------------
(* What a decode of the bytes on the wire is to write, in plain arithmetic.*)

\* The Head of the first byte.
WireHead ==
    [op |-> OpcodeOfNibble(WireFirst % 16),
     finished |-> Bit(WireFirst, 7),
     rsv |-> <<Bit(WireFirst, 6), Bit(WireFirst, 5), Bit(WireFirst, 4)>>]

\* The length the header announces as a u64 (base codes 0..125 and 127).
WireLength ==
    IF WireCode = 127
    THEN [k \in 1..4 |-> wire[2 * k + 1] * 256 + wire[2 * k + 2]]
    ELSE <<0, 0, 0, WireCode>>

----------------------------------------------------------------------------
(* C13 *)

\* C13: when a call of decode returns Partial, the fields it wrote before
\* the abort hold what the buffer says (head once byte 1 is there,
\* payload_len once the length field is), the abort itself leaves the
\* Frame as it is, and over any sequence of calls no field goes from Some
\* to None.
C13_PartialKeepsFields ==
    [][ /\ (pc' = "done" /\ status' = Partial)
             => /\ frame' = frame
                /\ avail' >= 1 => frame'.head = Some(WireHead')
                /\ avail' >= 2 + WireExtBytes'
                     => frame'.payload_len = Some(WireLength')
        /\ frame.head # None => frame'.head # None
        /\ frame.mask # None => frame'.mask # None
        /\ frame.payload_len # None => frame'.payload_len # None
      ]_vars

\* C13, witness: the second call on a Frame that holds a mask returns
\* Partial one byte before the end of a masked header; head and
\* payload_len are those of the second buffer and the mask is still there.
C13_Witness ==
    /\ calls = 2
    /\ pc = "done"
    /\ status = Partial
    /\ WireMasked
    /\ avail = WireHeaderLen - 1
    /\ frame.head = Some(WireHead)
    /\ frame.payload_len = Some(WireLength)
    /\ frame.mask # None

----------------------------------------------------------------------------
(* C14 *)

\* C14, as claimed: from Frame::empty() on, at every point of every call,
\* payload_len is never Some while head is None, and while decode works
\* on a frame whose mask bit is set payload_len is never Some while mask
\* is None (head, then mask, then payload length).
C14_HeadMaskLengthOrder ==
    /\ frame.payload_len # None => frame.head # None
    /\ (avail >= 2 /\ WireMasked /\ frame.payload_len # None)
         => frame.mask # None

\* C14, amended: from Frame::empty() on, at every point of every call, the
\* fields are populated in the order head, payload length, mask:
\* payload_len is never Some while head is None, and mask is never Some
\* while payload_len is None.
C14_HeadLengthMaskOrder ==
    /\ frame.payload_len # None => frame.head # None
    /\ frame.mask # None => frame.payload_len # None

\* C14, witness: inside the first call on a masked frame, between the
\* statement that writes payload_len and the one that writes mask.
C14_Witness ==
    /\ calls = 1
    /\ pc = "mask"
    /\ WireMasked
    /\ frame.head # None
    /\ frame.payload_len # None
    /\ frame.mask = None

----------------------------------------------------------------------------
(* C15 *)

\* The buffer ends inside the length field / inside the masking key.
LengthFieldShort ==
    avail >= 2 /\ WireExtBytes > 0 /\ avail < 2 + WireExtBytes
MaskKeyShort ==
    WireMasked /\ avail >= 2 + WireExtBytes /\ avail < WireHeaderLen

\* What a call on a buffer that ends early is to leave alone, step by
\* step: `untouched` are the fields no step of the call may change (and
\* that are None in the first call on a Frame::empty()), and the call is
\* to end in Partial.
AbortsLeaving(untouched) ==
    /\ \A f \in untouched : frame'[f] = frame[f]
    /\ calls' = 1 => \A f \in untouched : frame'[f] = None
    /\ pc' = "done" => status' = Partial

\* C15, as claimed: decode aborts at the first phase whose bytes are
\* missing and touches nothing behind it. On an empty buffer it returns
\* Partial and changes no field; on a 1-byte buffer it returns Partial and
\* changes only head; when the length field behind code 126 or 127 is
\* short it returns Partial with payload_len and mask unchanged; when only
\* the masking key is short it returns Partial with mask unchanged.
C15_AbortTouchesNothingBehind ==
    [][ /\ avail' = 0 => AbortsLeaving({"head", "payload_len", "mask"})
        /\ avail' = 1 => AbortsLeaving({"payload_len", "mask"})
        /\ LengthFieldShort' => AbortsLeaving({"payload_len", "mask"})
        /\ MaskKeyShort' => AbortsLeaving({"mask"})
      ]_vars

\* C15, the part of it the code keeps: the same, but for the buffer that
\* holds the 4 length bytes of base code 126 and ends inside the masking
\* key, on which decode panics instead of returning Partial (C4); the mask
\* is left alone there too.
C15_AbortTouchesNothingBehindExcept126 ==
    [][ /\ avail' = 0 => AbortsLeaving({"head", "payload_len", "mask"})
        /\ avail' = 1 => AbortsLeaving({"payload_len", "mask"})
        /\ LengthFieldShort' => AbortsLeaving({"payload_len", "mask"})
        /\ (MaskKeyShort' /\ WireCode' # 126) => AbortsLeaving({"mask"})
        /\ MaskKeyShort' => frame'.mask = frame.mask
      ]_vars

----------------------------------------------------------------------------
(* C16 *)

\* The Frame a decode of the header on the wire is to leave: a function of
\* the first WireHeaderLen bytes alone.
WireFrame ==
    [head |-> Some(WireHead),
     mask |-> IF WireMasked THEN Some(WireMaskKey) ELSE None,
     payload_len |-> Some(WireLength)]

\* The buffers B on which a single decode into Frame::empty() completes:
\* those that hold the whole header, base code 126 apart (C4).
HoldsHeader == WireCode # 126 /\ avail >= WireHeaderLen

\* C16: on a buffer B that a single decode into Frame::empty() completes
\* on, any call of the retry protocol (the first, which is that single
\* decode, and every later one, made on the Frame that the calls on
\* shorter prefixes of B have left) returns the same Complete(n) and
\* leaves the same head, mask and payload_len.
C16_RetryEqualsSingleDecode ==
    (pc = "done" /\ HoldsHeader)
        => /\ status = Complete(WireHeaderLen)
           /\ frame = WireFrame

\* C16, witness: the second call of a retry, on the whole 14-byte header
\* of a masked frame with an 8-byte length, after a first call on a
\* shorter prefix: Complete(14) and the Frame of a single decode.
C16_Witness ==
    /\ calls = 2
    /\ pc = "done"
    /\ WireMasked /\ WireCode = 127
    /\ avail = WireHeaderLen
    /\ status = Complete(14)
    /\ frame = WireFrame

----------------------------------------------------------------------------
(* C17 *)

\* C17: when decode into Frame::empty() completes, n and the Frame are
\* those of the header alone, and no byte at index n or beyond is read;
\* and it completes on every buffer that holds the header. So the shortest
\* buffer B that completes and B followed by any further bytes give the
\* same Complete(n), head, mask and payload_len.
C17_ExtensionStable ==
    /\ (pc = "done" /\ is_complete(status))
         => /\ HoldsHeader
            /\ status[2] = WireHeaderLen
            /\ frame = WireFrame
            /\ \A i \in reads : i < status[2]
    /\ (pc = "done" /\ HoldsHeader) => is_complete(status)

\* C17, witness: a buffer that holds a whole masked frame with an 8-byte
\* length and bytes of the next frame behind it, decoded to Complete(14).
C17_Witness ==
    /\ pc = "done"
    /\ WireMasked /\ WireCode = 127
    /\ avail > WireFrameLen
    /\ status = Complete(14)
    /\ frame = WireFrame

----------------------------------------------------------------------------
(* The cursor driven on its own: any sequence of next() and slice_to(n)    *)
(* on a Bytes over a slice, also behind a slice_to that has failed (which  *)
(* decode never does: it returns at the first None).                       *)

\* Largest count handed to slice_to.
MaxCount == 4
\* No call is made on a cursor whose position is beyond this.
MaxPos == 8

\* The slices: the prefixes of the buffer of tests::it_works.
CursorWire == <<TestFirst, 3, 1, 2, 3>>

\* Bytes::new(slice)
InitCursor ==
    /\ wire = CursorWire
    /\ avail \in 0..Len(wire)
    /\ pos = 0
    /\ reads = {}
    /\ ret = None
    /\ pc = "cursor"
    /\ frame = Frame_empty
    /\ first = None
    /\ second = None
    /\ status = None
    /\ calls = 0

\* bytes.next()
CursorNext ==
    /\ pc = "cursor"
    /\ pos <= MaxPos
    /\ LET r == Bytes_next(buf, pos)
       IN  /\ pos' = r.pos
           /\ reads' = reads \cup r.read
           /\ ret' = Some([name |-> "next", count |-> 1, item |-> r.item])
    /\ UNCHANGED <<wire, avail, frame, first, second, pc, status, calls>>

\* bytes.slice_to(count): the slice is handed out by reference, no byte of
\* it is read.
CursorSliceTo ==
    /\ pc = "cursor"
    /\ pos <= MaxPos
    /\ \E count \in 0..MaxCount :
         LET r == Bytes_slice_to(buf, pos, count)
         IN  /\ pos' = r.pos
             /\ ret' = Some([name |-> "slice_to", count |-> count,
                             item |-> r.item])
    /\ UNCHANGED <<wire, avail, frame, first, second, pc, status, calls,
                   reads>>

NextCursor == CursorNext \/ CursorSliceTo

SpecCursor == InitCursor /\ [][NextCursor]_vars

----------------------------------------------------------------------------
(* C18 *)

\* C18: slice_to(count) moves the position by count whether it succeeds or
\* fails; it returns None exactly when fewer than count bytes lie between
\* the position before the call and the end of the slice (behind the end
\* that is fewer than none), and otherwise those count bytes; after a
\* failed slice_to the position is beyond the length of the slice, and
\* from then on every next() and slice_to returns None and reads nothing;
\* next() moves the position by exactly one when it returns a byte (the
\* one at the position), and not at all when it returns None; no index at
\* or beyond the length is ever read.
C18_CursorProtocol ==
    [][ LET call == ret'[1]
        IN  /\ call.name = "slice_to"
                 => /\ pos' = pos + call.count
                    /\ call.item = None <=> avail - pos < call.count
                    /\ call.item # None
                         => call.item[1]
                              = [i \in 1..call.count |-> wire[pos + i]]
                    /\ call.item = None => pos' > avail
                    /\ reads' = reads
            /\ call.name = "next"
                 => /\ call.item # None
                         => (pos < avail /\ pos' = pos + 1
                               /\ call.item[1] = wire[pos + 1])
                    /\ call.item = None => (pos >= avail /\ pos' = pos)
            /\ pos > avail => (call.item = None /\ reads' = reads)
            /\ \A i \in reads' : i < avail
      ]_vars

\* C18, witness: a slice_to has failed on a slice that next() had read a
\* byte of, the position is beyond the length, and the next() behind it
\* has returned None.
C18_Witness ==
    /\ pc = "cursor"
    /\ pos > avail
    /\ reads = {0}
    /\ ret = Some([name |-> "next", count |-> 1, item |-> None])

====
